---- MODULE Spec2Model ----
(***************************************************************************)
(* Model of logging/logging_wrapper.py: the class LoggingWrapper, which    *)
(* forwards one log message to a console logger and to a file logger and   *)
(* colours the console copy according to the log level.                    *)
(*                                                                         *)
(* Text is modelled by TLA+ strings; the ASCII escape character (written   *)
(* "\033" in the Python source) is the string ESC.  The two loggers are    *)
(* recording sinks: every invocation of one of their logging methods is    *)
(* appended to `writes`, in the order in which the invocations happen.     *)
(***************************************************************************)
EXTENDS Integers, Sequences, FiniteSets, TLC

(***************************************************************************)
(* Bounds of the model.                                                    *)
(***************************************************************************)
\* number of calls of the logging methods made on one LoggingWrapper
MaxCalls == 2

(***************************************************************************)
(* Module-level attributes of logging_wrapper.py.                          *)
(***************************************************************************)
log_levels == <<"debug", "info", "warning", "error", "exception", "critical">>

Levels == {log_levels[i] : i \in 1..Len(log_levels)}

\* the escape character "\033"
ESC == "\\033"

\* A format pattern is the sequence of its literal parts and its
\* replacement fields "{}".
color_levels_template ==
    [debug     |-> <<ESC \o "[", "{}", "m", "{}", ESC \o "[0m">>,
     info      |-> <<ESC \o "[", "{}", "m", "{}", ESC \o "[0m">>,
     warning   |-> <<ESC \o "[", "{}", "m", "{}", ESC \o "[0m">>,
     error     |-> <<ESC \o "[", "{}", "m", "{}", ESC \o "[0m">>,
     exception |-> <<ESC \o "[", "{}", "m", "{}", ESC \o "[0m">>,
     critical  |-> <<ESC \o "[7;31;", "{}", "m", "{}", ESC \o "[0m">>]

\* mutant: the default table has no colour for exception
default_color_levels_NoException ==
    [debug |-> 36, info |-> 32, warning |-> 33,
     error |-> 31, critical |-> 31]

default_color_levels ==
    [debug |-> 36, info |-> 32, warning |-> 33,
     error |-> 31, exception |-> 31, critical |-> 31]

\* mutant: the PyCharm table takes over the default colour of debug
pycharm_color_levels_DebugAsDefault ==
    [debug |-> 36, info |-> 36, warning |-> 32,
     error |-> 31, exception |-> 31, critical |-> 31]

pycharm_color_levels ==
    [debug |-> 34, info |-> 36, warning |-> 32,
     error |-> 31, exception |-> 31, critical |-> 31]

(***************************************************************************)
(* The inputs: constructor arguments, messages, behaviour of the loggers.  *)
(***************************************************************************)
\* caller-supplied colour tables: a complete one and two that lack a level
CustomFull ==
    [debug |-> 35, info |-> 35, warning |-> 93,
     error |-> 91, exception |-> 91, critical |-> 5]

CustomNoCritical ==
    [l \in Levels \ {"critical"} |-> CustomFull[l]]

CustomNoInfo ==
    [l \in Levels \ {"info"} |-> CustomFull[l]]

ColorLevelsArgs ==
    {default_color_levels, CustomFull, CustomNoCritical, CustomNoInfo}

\* a message is a str or an Exception built by a constructor with arguments
StrMsg(text) == [kind |-> "str", text |-> text]

ExcMsg(ctor, args) == [kind |-> "exc", ctor |-> ctor, args |-> args]

Messages ==
    {StrMsg("disk almost full"),
     ExcMsg("IOError", <<"The file doesn't exist">>),
     ExcMsg("OSError", <<"disk full">>)}

\* "none": the logger's method returns; otherwise the exception it raises
NoExc == "none"

ConsoleOutcomes == {NoExc, "BrokenPipeError"}

FileOutcomes == {NoExc, "PermissionError"}

(***************************************************************************)
(* Python built-ins used by the class.                                     *)
(***************************************************************************)
Digit(d) ==
    CASE d = 0 -> "0" [] d = 1 -> "1" [] d = 2 -> "2" [] d = 3 -> "3"
      [] d = 4 -> "4" [] d = 5 -> "5" [] d = 6 -> "6" [] d = 7 -> "7"
      [] d = 8 -> "8" [] d = 9 -> "9"

RECURSIVE IntToStr(_)
\* str(n) of a natural number n, as "{}".format(n) writes it
IntToStr(n) ==
    IF n < 10 THEN Digit(n) ELSE IntToStr(n \div 10) \o Digit(n % 10)

RECURSIVE Format(_, _)
\* pattern.format(*args): each "{}" is replaced by the next argument
Format(pattern, args) ==
    IF pattern = <<>> THEN ""
    ELSE IF Head(pattern) = "{}"
         THEN Head(args) \o Format(Tail(pattern), Tail(args))
         ELSE Head(pattern) \o Format(Tail(pattern), args)

\* exc.__class__.__name__: IOError is an alias of the class OSError
ClassName(exc) == IF exc.ctor = "IOError" THEN "OSError" ELSE exc.ctor

\* exc.__str__(): the empty string without arguments, the argument if one
ExcStr(exc) == IF exc.args = <<>> THEN "" ELSE exc.args[1]

\* isinstance(msg, Exception)
IsException(msg) == msg.kind = "exc"

(***************************************************************************)
(* The state: the attributes of one LoggingWrapper and its two loggers.    *)
(***************************************************************************)
VARIABLES
    use_default_colors,  \* self.use_default_colors
    use_pycharm_colors,  \* self.use_pycharm_colors
    color_levels,        \* self.color_levels
    use_colors,          \* self.use_colors
    color_levels_arg,    \* the argument color_levels given to __init__
    writes,              \* invocations of the loggers' methods, in order
    calls                \* the calls of the logging methods, with outcome

vars == <<use_default_colors, use_pycharm_colors, color_levels, use_colors,
          color_levels_arg, writes, calls>>

config == <<use_default_colors, use_pycharm_colors, color_levels, use_colors,
            color_levels_arg>>

(***************************************************************************)
(* LoggingWrapper.__init__                                                 *)
(***************************************************************************)
\* mutant: a table given by the caller wins over use_pycharm_colors
InitColorLevels_ArgFirst(pycharm, arg) ==
    IF pycharm /\ arg = default_color_levels
    THEN pycharm_color_levels ELSE arg

InitColorLevels(pycharm, arg) ==
    IF pycharm THEN pycharm_color_levels ELSE arg

\* mutant: only use_default_colors switches the colours on
InitUseColors_OnlyDefault(default, pycharm) ==
    IF default THEN TRUE ELSE FALSE

InitUseColors(default, pycharm) ==
    IF default \/ pycharm THEN TRUE ELSE FALSE

Init ==
    /\ use_default_colors \in BOOLEAN
    /\ use_pycharm_colors \in BOOLEAN
    /\ color_levels_arg \in ColorLevelsArgs
    /\ color_levels = InitColorLevels(use_pycharm_colors, color_levels_arg)
    /\ use_colors = InitUseColors(use_default_colors, use_pycharm_colors)
    /\ writes = <<>>
    /\ calls = <<>>

(***************************************************************************)
(* LoggingWrapper._get_error_msg, _set_color, _call_loggers                *)
(***************************************************************************)
\* mutant: another layout of the error message
GetErrorMsg_NoBrackets(exc) ==
    Format(<<"{}", ": ", "{}">>, <<ClassName(exc), ExcStr(exc)>>)

\* '[{}] {}'.format(exc.__class__.__name__, exc.__str__())
GetErrorMsg(exc) ==
    Format(<<"[", "{}", "] ", "{}">>, <<ClassName(exc), ExcStr(exc)>>)

\* line 142: the message as a str
Normalize(msg) == IF IsException(msg) THEN GetErrorMsg(msg) ELSE msg.text

\* lines 193-194 for a wrapper whose self.color_levels is `table`: the
\* coloured message, or the KeyError of the lookup in the table
SetColorWith(table, msg, level) ==
    IF level \notin DOMAIN table
    THEN [raised |-> "KeyError", value |-> ""]
    ELSE [raised |-> NoExc,
          value  |-> Format(color_levels_template[level],
                            <<IntToStr(table[level]), msg>>)]

\* mutant: the arguments of format() in the wrong order
SetColor_SwappedArgs(msg, level) ==
    IF level \notin DOMAIN color_levels
    THEN [raised |-> "KeyError", value |-> ""]
    ELSE [raised |-> NoExc,
          value  |-> Format(color_levels_template[level],
                            <<msg, IntToStr(color_levels[level])>>)]

\* mutant: the table is validated as a whole at every call
SetColor_ValidateAll(msg, level) ==
    IF DOMAIN color_levels # Levels
    THEN [raised |-> "KeyError", value |-> ""]
    ELSE SetColorWith(color_levels, msg, level)

\* mutant: a level missing from the table leaves the message uncoloured
SetColor_Fallback(msg, level) ==
    IF level \notin DOMAIN color_levels
    THEN [raised |-> NoExc, value |-> msg]
    ELSE SetColorWith(color_levels, msg, level)

\* _set_color
SetColor(msg, level) == SetColorWith(color_levels, msg, level)

\* mutant: the console message is coloured whatever use_colors says
ConsoleMsg_AlwaysColor(msg, level) == SetColor(msg, level)

\* mutant: a colour table given by the caller switches the colours on
ConsoleMsg_ColorIfCustom(msg, level) ==
    IF use_colors \/ color_levels # default_color_levels
    THEN SetColor(msg, level)
    ELSE [raised |-> NoExc, value |-> msg]

\* mutant: the colours are used up by the first call
ConsoleMsg_FirstCallOnly(msg, level) ==
    IF use_colors /\ calls = <<>> THEN SetColor(msg, level)
    ELSE [raised |-> NoExc, value |-> msg]

\* line 148: the message for the console logger
ConsoleMsg(msg, level) ==
    IF use_colors THEN SetColor(msg, level)
    ELSE [raised |-> NoExc, value |-> msg]

\* one invocation of the method `level` of a logger
Invocation(sink, level, text, raised) ==
    [call |-> Len(calls) + 1, sink |-> sink, method |-> level,
     text |-> text, raised |-> raised]

\* mutant: the file logger is called in a finally clause, also when the
\* console logger raises
Dispatch_FileInFinally(msg, level, c_out, f_out) ==
    LET c_msg == ConsoleMsg(msg, level)
        c_inv == Invocation("console", level, c_msg.value, c_out)
        f_inv == Invocation("file", level, msg, f_out)
    IN  IF c_msg.raised # NoExc
        THEN [invoked |-> <<>>, raised |-> c_msg.raised]
        ELSE IF c_out # NoExc
        THEN [invoked |-> <<c_inv, f_inv>>, raised |-> c_out]
        ELSE [invoked |-> <<c_inv, f_inv>>, raised |-> f_out]

\* mutant: the file logger is called before the message is coloured
Dispatch_FileBeforeColor(msg, level, c_out, f_out) ==
    LET c_msg == ConsoleMsg(msg, level)
        c_inv == Invocation("console", level, c_msg.value, c_out)
        f_inv == Invocation("file", level, msg, f_out)
    IN  IF c_msg.raised # NoExc
        THEN [invoked |-> <<f_inv>>,
              raised  |-> IF f_out # NoExc THEN f_out ELSE c_msg.raised]
        ELSE IF f_out # NoExc
        THEN [invoked |-> <<f_inv>>, raised |-> f_out]
        ELSE [invoked |-> <<f_inv, c_inv>>, raised |-> c_out]

\* mutant: the file logger is given the console's message
Dispatch_ColoredFile(msg, level, c_out, f_out) ==
    LET c_msg == ConsoleMsg(msg, level)
        c_inv == Invocation("console", level, c_msg.value, c_out)
        f_inv == Invocation("file", level, c_msg.value, f_out)
    IN  IF c_msg.raised # NoExc
        THEN [invoked |-> <<>>, raised |-> c_msg.raised]
        ELSE IF c_out # NoExc
        THEN [invoked |-> <<c_inv>>, raised |-> c_out]
        ELSE [invoked |-> <<c_inv, f_inv>>, raised |-> f_out]

\* mutant: the file logger is called before the console logger
Dispatch_FileFirst(msg, level, c_out, f_out) ==
    LET c_msg == ConsoleMsg(msg, level)
        c_inv == Invocation("console", level, c_msg.value, c_out)
        f_inv == Invocation("file", level, msg, f_out)
    IN  IF c_msg.raised # NoExc
        THEN [invoked |-> <<>>, raised |-> c_msg.raised]
        ELSE IF f_out # NoExc
        THEN [invoked |-> <<f_inv>>, raised |-> f_out]
        ELSE [invoked |-> <<f_inv, c_inv>>, raised |-> c_out]

\* mutant: an exception of the console logger is caught and the file
\* logger is called all the same
Dispatch_SwallowConsole(msg, level, c_out, f_out) ==
    LET c_msg == ConsoleMsg(msg, level)
        c_inv == Invocation("console", level, c_msg.value, c_out)
        f_inv == Invocation("file", level, msg, f_out)
    IN  IF c_msg.raised # NoExc
        THEN [invoked |-> <<>>, raised |-> c_msg.raised]
        ELSE [invoked |-> <<c_inv, f_inv>>, raised |-> f_out]

\* lines 145-151: the invocations of the loggers' methods made by one call
\* and the exception the call ends with; c_out and f_out are what the
\* console and the file logger do when invoked
Dispatch(msg, level, c_out, f_out) ==
    LET c_msg == ConsoleMsg(msg, level)
        c_inv == Invocation("console", level, c_msg.value, c_out)
        f_inv == Invocation("file", level, msg, f_out)
    IN  IF c_msg.raised # NoExc
        THEN [invoked |-> <<>>, raised |-> c_msg.raised]
        ELSE IF c_out # NoExc
        THEN [invoked |-> <<c_inv>>, raised |-> c_out]
        ELSE [invoked |-> <<c_inv, f_inv>>, raised |-> f_out]

\* mutant: the console copy is coloured from str(msg), before the message
\* is normalized
CallLoggers_ColorBeforeNormalize(msg, level) ==
    /\ Len(calls) < MaxCalls
    /\ \E c_out \in ConsoleOutcomes, f_out \in FileOutcomes :
         LET raw == IF IsException(msg) THEN ExcStr(msg) ELSE msg.text
             d == Dispatch(Normalize(msg), level, c_out, f_out)
             inv == [k \in 1..Len(d.invoked) |->
                        IF d.invoked[k].sink = "console"
                        THEN [d.invoked[k] EXCEPT
                                 !.text = ConsoleMsg(raw, level).value]
                        ELSE d.invoked[k]]
         IN  /\ writes' = writes \o inv
             /\ calls' = Append(calls, [level |-> level, msg |-> msg,
                                        raised |-> d.raised])
    /\ UNCHANGED config

CallLoggers(msg, level) ==
    /\ Len(calls) < MaxCalls
    /\ \E c_out \in ConsoleOutcomes, f_out \in FileOutcomes :
         LET d == Dispatch(Normalize(msg), level, c_out, f_out)
         IN  /\ writes' = writes \o d.invoked
             /\ calls' = Append(calls, [level |-> level, msg |-> msg,
                                        raised |-> d.raised])
    /\ UNCHANGED config

(***************************************************************************)
(* The logging methods.                                                    *)
(***************************************************************************)
debug == \E msg \in Messages : CallLoggers(msg, "debug")

info == \E msg \in Messages : CallLoggers(msg, "info")

warning == \E msg \in Messages : CallLoggers(msg, "warning")

error == \E msg \in Messages : CallLoggers(msg, "error")

exception == \E msg \in Messages : CallLoggers(msg, "exception")

critical == \E msg \in Messages : CallLoggers(msg, "critical")

Next ==
    \/ debug
    \/ info
    \/ warning
    \/ error
    \/ exception
    \/ critical

Spec == Init /\ [][Next]_vars

(***************************************************************************)
(* Reading the history: the invocations made by the i-th call.             *)
(***************************************************************************)
CallIds == 1..Len(calls)

WritesOf(i) == SelectSeq(writes, LAMBDA w : w.call = i)

SinkWritesOf(i, sink) ==
    SelectSeq(writes, LAMBDA w : w.call = i /\ w.sink = sink)

NoColorFlags == ~use_default_colors /\ ~use_pycharm_colors

StandardColors ==
    /\ use_default_colors
    /\ ~use_pycharm_colors
    /\ color_levels_arg = default_color_levels

(***************************************************************************)
(* C1: with use_default_colors and use_pycharm_colors both false, a call   *)
(* of any of the six logging methods with a plain str m gives the console  *)
(* logger exactly m and the file logger exactly m: the console logger is   *)
(* invoked once with m, and when it returns the file logger is invoked     *)
(* once with m.                                                            *)
(***************************************************************************)
C1_PlainMessageUnmodified ==
    NoColorFlags =>
        \A i \in CallIds :
            calls[i].msg.kind = "str" =>
                LET m == calls[i].msg.text
                    c == SinkWritesOf(i, "console")
                    f == SinkWritesOf(i, "file")
                IN  /\ Len(c) = 1
                    /\ c[1].text = m
                    /\ \A k \in 1..Len(f) : f[k].text = m
                    /\ c[1].raised = NoExc => Len(f) = 1

C1_Witness ==
    /\ NoColorFlags
    /\ \E i \in CallIds :
          /\ calls[i].level = "critical"
          /\ calls[i].msg = StrMsg("disk almost full")
          /\ calls[i].raised = NoExc
          /\ Len(SinkWritesOf(i, "console")) = 1
          /\ Len(SinkWritesOf(i, "file")) = 1

(***************************************************************************)
(* C2: with the standard colours (use_default_colors true,                 *)
(* use_pycharm_colors false, color_levels the default table), a call of    *)
(* level L with a plain str m gives the console logger                     *)
(* ESC[<code>m m ESC[0m, and ESC[7;31;<code>m m ESC[0m for critical, where *)
(* <code> is 36, 32, 33, 31, 31, 31 for debug, info, warning, error,       *)
(* exception, critical; warning("disk almost full") gives                  *)
(* "\033[33mdisk almost full\033[0m".  The file logger is given m.         *)
(***************************************************************************)
StandardCodeText(level) ==
    CASE level = "debug"     -> "36"
      [] level = "info"      -> "32"
      [] level = "warning"   -> "33"
      [] level = "error"     -> "31"
      [] level = "exception" -> "31"
      [] level = "critical"  -> "31"

Colored(level, code, m) ==
    IF level = "critical"
    THEN ESC \o "[7;31;" \o code \o "m" \o m \o ESC \o "[0m"
    ELSE ESC \o "[" \o code \o "m" \o m \o ESC \o "[0m"

C2_StandardColors ==
    StandardColors =>
        \A i \in CallIds :
            calls[i].msg.kind = "str" =>
                LET m == calls[i].msg.text
                    L == calls[i].level
                    c == SinkWritesOf(i, "console")
                    f == SinkWritesOf(i, "file")
                IN  /\ Len(c) = 1
                    /\ c[1].method = L
                    /\ c[1].text = Colored(L, StandardCodeText(L), m)
                    /\ (L = "warning" /\ m = "disk almost full") =>
                          c[1].text = "\\033[33mdisk almost full\\033[0m"
                    /\ \A k \in 1..Len(f) : f[k].text = m

C2_Witness ==
    /\ StandardColors
    /\ \E i \in CallIds :
          /\ calls[i].level = "warning"
          /\ calls[i].msg = StrMsg("disk almost full")
          /\ calls[i].raised = NoExc
          /\ SinkWritesOf(i, "console")[1].text
                = "\\033[33mdisk almost full\\033[0m"
          /\ SinkWritesOf(i, "file")[1].text = "disk almost full"

(***************************************************************************)
(* C3: in every reachable state, whatever the two colour flags and the     *)
(* colour table, every message given to the file logger is the normalized  *)
(* message of the call that made the invocation: the str itself, or        *)
(* "[K] d" for an exception; it is never the coloured string.              *)
(***************************************************************************)
NormalizedText(msg) ==
    IF msg.kind = "str" THEN msg.text
    ELSE "[" \o ClassName(msg) \o "] " \o ExcStr(msg)

PlainTexts ==
    {"disk almost full", "[OSError] The file doesn't exist",
     "[OSError] disk full"}

C3_FileNeverColored ==
    \A k \in 1..Len(writes) :
        writes[k].sink = "file" =>
            /\ writes[k].call \in CallIds
            /\ writes[k].text = NormalizedText(calls[writes[k].call].msg)
            /\ writes[k].text \in PlainTexts

C3_Witness ==
    /\ use_colors
    /\ \E i \in CallIds :
          /\ calls[i].raised = NoExc
          /\ IsException(calls[i].msg)
          /\ Len(SinkWritesOf(i, "file")) = 1
          /\ SinkWritesOf(i, "file")[1].text
                = "[OSError] The file doesn't exist"
          /\ SinkWritesOf(i, "console")[1].text
                # SinkWritesOf(i, "file")[1].text

(***************************************************************************)
(* C4: a call of logging method L that returns has made exactly two        *)
(* invocations: first the console logger's method L, then the file         *)
(* logger's method L, each once and each returning.  The invocations are   *)
(* made during the call: nothing is buffered, repeated or left out.        *)
(***************************************************************************)
C4_TwoWritesInOrder ==
    \A i \in CallIds :
        calls[i].raised = NoExc =>
            LET w == WritesOf(i)
            IN  /\ Len(w) = 2
                /\ w[1].sink = "console"
                /\ w[2].sink = "file"
                /\ w[1].method = calls[i].level
                /\ w[2].method = calls[i].level
                /\ w[1].raised = NoExc
                /\ w[2].raised = NoExc

C4_Witness ==
    /\ Len(calls) = 2
    /\ calls[1].raised = NoExc
    /\ calls[2].raised = NoExc
    /\ calls[1].level = "exception"
    /\ calls[2].level = "debug"
    /\ Len(writes) = 4
    /\ writes[3].sink = "console"
    /\ writes[4].sink = "file"

(***************************************************************************)
(* C5: when the message of a call is an exception of class name K with     *)
(* description d, the normalized text is "[K] d": IOError("The file        *)
(* doesn't exist") gives "[OSError] The file doesn't exist" and            *)
(* OSError("disk full") gives "[OSError] disk full".  The file logger is   *)
(* given that text and the console logger is given that text, coloured     *)
(* for the level when use_colors is true and as it is otherwise.           *)
(***************************************************************************)
ExpectedErrorText(msg) ==
    CASE msg = ExcMsg("IOError", <<"The file doesn't exist">>)
            -> "[OSError] The file doesn't exist"
      [] msg = ExcMsg("OSError", <<"disk full">>)
            -> "[OSError] disk full"

C5_ExceptionNormalized ==
    \A i \in CallIds :
        IsException(calls[i].msg) =>
            LET n == ExpectedErrorText(calls[i].msg)
                L == calls[i].level
                c == SinkWritesOf(i, "console")
                f == SinkWritesOf(i, "file")
            IN  /\ n = "[" \o ClassName(calls[i].msg) \o "] "
                           \o ExcStr(calls[i].msg)
                /\ \A k \in 1..Len(f) : f[k].text = n
                /\ \A k \in 1..Len(c) :
                      c[k].text =
                          IF use_colors
                          THEN Colored(L, IntToStr(color_levels[L]), n)
                          ELSE n
                /\ calls[i].raised = NoExc => Len(c) = 1 /\ Len(f) = 1

C5_Witness ==
    \E i \in CallIds :
        /\ calls[i].msg = ExcMsg("OSError", <<"disk full">>)
        /\ calls[i].level = "error"
        /\ calls[i].raised = NoExc
        /\ use_colors
        /\ SinkWritesOf(i, "file")[1].text = "[OSError] disk full"
        /\ SinkWritesOf(i, "console")[1].text
              = Colored("error", "31", "[OSError] disk full")

(***************************************************************************)
(* C6: for the same message, a wrapper with the standard colours and a     *)
(* wrapper with the PyCharm colours give the console logger different      *)
(* texts for debug, info and warning and the same text for error,          *)
(* exception and critical.  The console text of the wrapper of the state   *)
(* is compared with the text _set_color gives with the other table.        *)
(***************************************************************************)
PycharmColors == use_pycharm_colors

OtherPresetText(i) ==
    SetColorWith(IF PycharmColors THEN default_color_levels
                 ELSE pycharm_color_levels,
                 NormalizedText(calls[i].msg), calls[i].level).value

C6_PresetsDiffer ==
    (PycharmColors \/ StandardColors) =>
        \A i \in CallIds :
            LET c == SinkWritesOf(i, "console")
            IN  /\ Len(c) = 1
                /\ calls[i].level \in {"debug", "info", "warning"}
                      => c[1].text # OtherPresetText(i)
                /\ calls[i].level \in {"error", "exception", "critical"}
                      => c[1].text = OtherPresetText(i)

C6_Witness ==
    /\ PycharmColors
    /\ Len(calls) = 2
    /\ calls[1].msg = calls[2].msg
    /\ calls[1].level = "warning"
    /\ calls[2].level = "critical"
    /\ SinkWritesOf(1, "console")[1].text # OtherPresetText(1)
    /\ SinkWritesOf(2, "console")[1].text = OtherPresetText(2)

(***************************************************************************)
(* C7: after construction and ever after, self.color_levels is the         *)
(* PyCharm table when use_pycharm_colors is true, whatever                 *)
(* use_default_colors and the argument color_levels are, and the argument  *)
(* color_levels as it was given otherwise.                                 *)
(***************************************************************************)
C7_ActiveColorLevels ==
    /\ use_pycharm_colors => color_levels = pycharm_color_levels
    /\ ~use_pycharm_colors => color_levels = color_levels_arg

C7_Witness ==
    /\ use_pycharm_colors
    /\ use_default_colors
    /\ color_levels_arg = CustomNoCritical
    /\ color_levels = pycharm_color_levels
    /\ Len(calls) = 1

(***************************************************************************)
(* C8: self.use_colors is true exactly when use_default_colors or          *)
(* use_pycharm_colors is; when it is false, every invocation of either     *)
(* logger is given the normalized message of its call.                     *)
(***************************************************************************)
C8_UseColorsFlag ==
    /\ use_colors <=> (use_default_colors \/ use_pycharm_colors)
    /\ ~use_colors =>
          \A k \in 1..Len(writes) :
              writes[k].text = NormalizedText(calls[writes[k].call].msg)

C8_Witness ==
    /\ ~use_colors
    /\ color_levels_arg = CustomFull
    /\ \E i \in CallIds :
          /\ calls[i].raised = NoExc
          /\ IsException(calls[i].msg)
          /\ SinkWritesOf(i, "console")[1].text
                = SinkWritesOf(i, "file")[1].text

(***************************************************************************)
(* C9, as claimed: a wrapper constructed with a colour table that has no   *)
(* entry for critical fails every call of critical with the KeyError of    *)
(* the lookup (construction never fails).                                  *)
(***************************************************************************)
C9_Original ==
    "critical" \notin DOMAIN color_levels_arg =>
        \A i \in CallIds :
            calls[i].level = "critical" => calls[i].raised = "KeyError"

(***************************************************************************)
(* C9, amended: a wrapper constructed with use_default_colors true,        *)
(* use_pycharm_colors false and a colour table that has no entry for       *)
(* critical fails every call of critical with the KeyError of the lookup,  *)
(* and neither logger is invoked by that call.                             *)
(***************************************************************************)
C9_Amended ==
    (/\ use_default_colors
     /\ ~use_pycharm_colors
     /\ "critical" \notin DOMAIN color_levels_arg) =>
        \A i \in CallIds :
            calls[i].level = "critical" =>
                /\ calls[i].raised = "KeyError"
                /\ WritesOf(i) = <<>>

C9_Witness ==
    /\ use_default_colors
    /\ ~use_pycharm_colors
    /\ color_levels_arg = CustomNoCritical
    /\ \E i \in CallIds :
          /\ calls[i].level = "critical"
          /\ calls[i].raised = "KeyError"

(***************************************************************************)
(* C10: when a logger raises an exception during an invocation, the call   *)
(* that made the invocation ends with that very exception, the invocation  *)
(* is the last one of the call, and it was made once.  A call ends with    *)
(* an exception only if the colour lookup or its last invocation raised it.*)
(***************************************************************************)
C10_SinkFailurePropagates ==
    /\ \A k \in 1..Len(writes) :
          writes[k].raised # NoExc =>
              LET i == writes[k].call
              IN  /\ calls[i].raised = writes[k].raised
                  /\ \A j \in (k + 1)..Len(writes) : writes[j].call # i
                  /\ Len(SinkWritesOf(i, writes[k].sink)) = 1
    /\ \A i \in CallIds :
          calls[i].raised \notin {NoExc, "KeyError"} =>
              /\ WritesOf(i) # <<>>
              /\ WritesOf(i)[Len(WritesOf(i))].raised = calls[i].raised

C10_Witness ==
    /\ Len(calls) = 2
    /\ calls[1].raised = "BrokenPipeError"
    /\ Len(WritesOf(1)) = 1
    /\ WritesOf(1)[1].sink = "console"
    /\ calls[2].raised = "PermissionError"
    /\ Len(WritesOf(2)) = 2
    /\ WritesOf(2)[2].sink = "file"
    /\ WritesOf(2)[2].raised = "PermissionError"

(***************************************************************************)
(* C11: two calls in a row of the same logging method with the same        *)
(* message make the same invocations: the same logger methods with the     *)
(* same texts in the same order, two identical pairs when both calls       *)
(* return (when a logger raises, the invocations made up to there are the  *)
(* same).  No call changes the wrapper: its attributes, colour table and   *)
(* use_colors included, are the same before and after every call.          *)
(***************************************************************************)
Stripped(w) == [sink |-> w.sink, method |-> w.method, text |-> w.text]

SameInvocations(i, j) ==
    LET a == WritesOf(i)
        b == WritesOf(j)
    IN  /\ \A k \in 1..Len(a) : k <= Len(b) => Stripped(a[k]) = Stripped(b[k])
        /\ (calls[i].raised = "KeyError") <=> (calls[j].raised = "KeyError")
        /\ (calls[i].raised = NoExc /\ calls[j].raised = NoExc) =>
              /\ Len(a) = 2
              /\ Len(b) = 2
              /\ a[1].raised = b[1].raised
              /\ a[2].raised = b[2].raised

RepeatedCallsAgree ==
    \A i \in CallIds :
        (/\ i + 1 \in CallIds
         /\ calls[i].level = calls[i + 1].level
         /\ calls[i].msg = calls[i + 1].msg) => SameInvocations(i, i + 1)

C11_RepeatedCallIdentical ==
    /\ []RepeatedCallsAgree
    /\ [][config' = config]_vars

C11_Witness ==
    /\ use_colors
    /\ Len(calls) = 2
    /\ calls[1].level = "critical"
    /\ calls[2].level = "critical"
    /\ calls[1].msg = ExcMsg("OSError", <<"disk full">>)
    /\ calls[2].msg = calls[1].msg
    /\ calls[1].raised = NoExc
    /\ calls[2].raised = NoExc
    /\ Len(writes) = 4
    /\ Stripped(writes[1]) = Stripped(writes[3])
    /\ Stripped(writes[2]) = Stripped(writes[4])
    /\ writes[1].text # writes[2].text

(***************************************************************************)
(* C12: with use_default_colors and use_pycharm_colors both false and a    *)
(* colour table other than the default one given to the constructor, the   *)
(* table is stored in self.color_levels and never used: every call, of     *)
(* every level, gives the console logger the uncoloured normalized         *)
(* message, and no call ends with the KeyError of a lookup, even for a     *)
(* level the table lacks.                                                  *)
(***************************************************************************)
CustomTableUnused ==
    /\ NoColorFlags
    /\ color_levels_arg # default_color_levels

C12_CustomTableNeverApplied ==
    CustomTableUnused =>
        /\ color_levels = color_levels_arg
        /\ \A i \in CallIds :
              LET c == SinkWritesOf(i, "console")
              IN  /\ calls[i].raised # "KeyError"
                  /\ Len(c) = 1
                  /\ c[1].text = NormalizedText(calls[i].msg)
                  /\ c[1].text \in PlainTexts

C12_Witness ==
    /\ CustomTableUnused
    /\ color_levels = CustomNoCritical
    /\ Len(calls) = 2
    /\ calls[1].level = "critical"
    /\ calls[1].raised = NoExc
    /\ SinkWritesOf(1, "console")[1].text = "disk almost full"
    /\ calls[2].level = "debug"
    /\ calls[2].raised = NoExc
    /\ SinkWritesOf(2, "console")[1].text = "[OSError] disk full"

(***************************************************************************)
(* C13, as claimed: with use_colors true and a colour table given to the   *)
(* constructor that lacks level L, every call of another level is free of  *)
(* the KeyError and every call of L ends with it.                          *)
(***************************************************************************)
C13_Original ==
    use_colors =>
        \A i \in CallIds :
            (calls[i].raised = "KeyError")
                <=> (calls[i].level \notin DOMAIN color_levels_arg)

(***************************************************************************)
(* C13, amended: with use_default_colors true, use_pycharm_colors false    *)
(* and a colour table given to the constructor that lacks level L, the     *)
(* construction succeeds, every call of another level gives the console    *)
(* logger the coloured message and is free of the KeyError, and every      *)
(* call of L, the first one and each later one, ends with the KeyError.    *)
(***************************************************************************)
CustomTableActive ==
    /\ use_default_colors
    /\ ~use_pycharm_colors
    /\ DOMAIN color_levels_arg # Levels

C13_Amended ==
    CustomTableActive =>
        /\ color_levels = color_levels_arg
        /\ \A i \in CallIds :
              LET L == calls[i].level
                  c == SinkWritesOf(i, "console")
              IN  /\ L \notin DOMAIN color_levels_arg
                        => calls[i].raised = "KeyError"
                  /\ L \in DOMAIN color_levels_arg
                        => /\ calls[i].raised # "KeyError"
                           /\ Len(c) = 1
                           /\ c[1].text =
                                 Colored(L, IntToStr(color_levels_arg[L]),
                                         NormalizedText(calls[i].msg))

C13_Witness ==
    /\ CustomTableActive
    /\ color_levels_arg = CustomNoInfo
    /\ Len(calls) = 2
    /\ calls[1].level = "critical"
    /\ calls[1].raised = NoExc
    /\ calls[2].level = "info"
    /\ calls[2].raised = "KeyError"

(***************************************************************************)
(* C14: in one call the message is normalized once, before it is           *)
(* coloured: with use_colors true and an exception as message, the console *)
(* logger is given the level's template filled with the colour code and    *)
(* the normalized text "[K] d", and the file logger is given "[K] d"; the  *)
(* console text without the escape sequences around it is the file text.   *)
(***************************************************************************)
\* the escape sequence the template of `level` puts before the message
ColorPrefix(level, code) ==
    IF level = "critical"
    THEN ESC \o "[7;31;" \o code \o "m"
    ELSE ESC \o "[" \o code \o "m"

ColorSuffix == ESC \o "[0m"

C14_NormalizedBeforeColored ==
    use_colors =>
        \A i \in CallIds :
            LET L == calls[i].level
                c == SinkWritesOf(i, "console")
                f == SinkWritesOf(i, "file")
            IN  /\ \A k \in 1..Len(c) :
                      c[k].text =
                          ColorPrefix(L, IntToStr(color_levels[L]))
                              \o NormalizedText(calls[i].msg) \o ColorSuffix
                /\ \A k \in 1..Len(f) :
                      /\ f[k].text = NormalizedText(calls[i].msg)
                      /\ Len(c) = 1
                      /\ c[1].text =
                            ColorPrefix(L, IntToStr(color_levels[L]))
                                \o f[k].text \o ColorSuffix
                /\ IsException(calls[i].msg) =>
                      \A k \in 1..Len(f) :
                          f[k].text = ExpectedErrorText(calls[i].msg)

C14_Witness ==
    /\ use_colors
    /\ \E i \in CallIds :
          /\ calls[i].msg = ExcMsg("IOError", <<"The file doesn't exist">>)
          /\ calls[i].level = "critical"
          /\ calls[i].raised = NoExc
          /\ color_levels = CustomFull
          /\ SinkWritesOf(i, "file")[1].text
                = "[OSError] The file doesn't exist"
          /\ SinkWritesOf(i, "console")[1].text
                = "\\033[7;31;5m[OSError] The file doesn't exist\\033[0m"

(***************************************************************************)
(* C15: color_levels_template, default_color_levels and                    *)
(* pycharm_color_levels each have exactly the six levels debug, info,      *)
(* warning, error, exception, critical as keys; so, with use_colors true   *)
(* and either of the two tables as self.color_levels, no call of any of    *)
(* the six logging methods ends with the KeyError of a lookup and each     *)
(* gives the console logger a coloured message.                            *)
(***************************************************************************)
SixLevels == {"debug", "info", "warning", "error", "exception", "critical"}

BuiltinTableActive ==
    /\ use_colors
    /\ color_levels \in {default_color_levels, pycharm_color_levels}

C15_BuiltinTablesTotal ==
    /\ Levels = SixLevels
    /\ DOMAIN color_levels_template = SixLevels
    /\ DOMAIN default_color_levels = SixLevels
    /\ DOMAIN pycharm_color_levels = SixLevels
    /\ BuiltinTableActive =>
          \A i \in CallIds :
              LET c == SinkWritesOf(i, "console")
              IN  /\ calls[i].raised # "KeyError"
                  /\ Len(c) = 1
                  /\ c[1].text # NormalizedText(calls[i].msg)

C15_Witness ==
    /\ BuiltinTableActive
    /\ color_levels = default_color_levels
    /\ Len(calls) = 2
    /\ calls[1].level = "exception"
    /\ calls[2].level = "critical"
    /\ calls[1].raised = NoExc
    /\ calls[2].raised = NoExc
    /\ SinkWritesOf(1, "console")[1].text
          = "\\033[31m[OSError] disk full\\033[0m"

(***************************************************************************)
(* C16: when the console logger raises during a call, the file logger is   *)
(* not invoked by that call; when the file logger raises during a call,    *)
(* the console logger has been invoked by that call before, once, and      *)
(* has returned.                                                           *)
(***************************************************************************)
C16_FanOutAbandoned ==
    \A i \in CallIds :
        LET c == SinkWritesOf(i, "console")
            f == SinkWritesOf(i, "file")
            w == WritesOf(i)
        IN  /\ (\E k \in 1..Len(c) : c[k].raised # NoExc) => f = <<>>
            /\ (\E k \in 1..Len(f) : f[k].raised # NoExc) =>
                  /\ Len(w) = 2
                  /\ w[1].sink = "console"
                  /\ w[1].raised = NoExc
                  /\ w[2].sink = "file"

C16_Witness ==
    /\ Len(calls) = 2
    /\ calls[1].raised = "PermissionError"
    /\ Len(SinkWritesOf(1, "console")) = 1
    /\ SinkWritesOf(1, "file")[1].raised = "PermissionError"
    /\ calls[2].raised = "BrokenPipeError"
    /\ SinkWritesOf(2, "console")[1].raised = "BrokenPipeError"
    /\ SinkWritesOf(2, "file") = <<>>

(***************************************************************************)
(* C17: a call that ends with the KeyError of the colour lookup (use_colors*)
(* true and self.color_levels without the level of the call) has invoked   *)
(* neither logger: the step of the call leaves the recorded invocations    *)
(* as they were.                                                           *)
(***************************************************************************)
LookupFails(level) == use_colors /\ level \notin DOMAIN color_levels

LastCall == calls[Len(calls)]

KeyErrorWritesNothing ==
    \A i \in CallIds :
        /\ LookupFails(calls[i].level) <=> calls[i].raised = "KeyError"
        /\ calls[i].raised = "KeyError" => WritesOf(i) = <<>>

C17_KeyErrorBeforeWrites ==
    /\ []KeyErrorWritesNothing
    /\ [][(Len(calls') > Len(calls) /\ LastCall'.raised = "KeyError")
             => writes' = writes]_vars

C17_Witness ==
    /\ Len(calls) = 2
    /\ calls[1].raised = NoExc
    /\ calls[2].raised = "KeyError"
    /\ calls[2].level = "critical"
    /\ color_levels = CustomNoCritical
    /\ Len(writes) = 2
    /\ writes[2].call = 1

====
